---- MODULE Spec2Model ----
(***************************************************************************)
(* Model of the ratatui_snake game loop (src/src/main.rs).                 *)
(*                                                                         *)
(* The state is the App struct, the position of the main loop, the event   *)
(* most recently read, and the build profile (arithmetic overflow panics   *)
(* with overflow checks on, wraps with overflow checks off).               *)
(***************************************************************************)
EXTENDS Integers, Sequences, FiniteSets

VARIABLES app, pc, event, overflow_checks, ticks

vars == <<app, pc, event, overflow_checks, ticks>>

(***************************************************************************)
(* Bounds of the model.                                                    *)
(***************************************************************************)
\* key presses handled in one run of the loop
MaxTicks == 3
\* the spawner's draws are sampled within this distance of the anchor cells
SpawnReach == 1

(***************************************************************************)
(* Machine integers.                                                       *)
(***************************************************************************)
U8Modulus == 256
U16Modulus == 65536
I16Max == 32767
I16Min == -32768

\* `x as i16` for x: u16
AsI16(u) == IF u > I16Max THEN u - U16Modulus ELSE u

\* `i as u16` for i: i16
AsU16(i) == (i + U16Modulus) % U16Modulus

\* i16 addition: the mathematical sum, whether it overflows, and the
\* two's-complement result produced when overflow checks are off
AddI16(a, d) ==
    LET sum == a + d
    IN  [overflow |-> (sum > I16Max) \/ (sum < I16Min),
         wrapped  |-> ((sum - I16Min) % U16Modulus) + I16Min]

Min(a, b) == IF a < b THEN a ELSE b

Abs(n) == IF n < 0 THEN -n ELSE n

(***************************************************************************)
(* Construction.                                                           *)
(***************************************************************************)
SnakeStartX == 84
SnakeStartY == 7

\* length: 0: the first tick pops the only cell
Snake_default_zero_length ==
    [body |-> << <<SnakeStartX, SnakeStartY>> >>, head |-> "X", length |-> 0]

Snake_default ==
    [body |-> << <<SnakeStartX, SnakeStartY>> >>, head |-> "X", length |-> 1]

\* exclusive upper ends of the two gen_range calls, and the lower end of y
AppleXEnd == 167
AppleYStart == 1
AppleYEnd == 14

\* every cell Apple::default can draw
AppleCells == (0 .. (AppleXEnd - 1)) \X (AppleYStart .. (AppleYEnd - 1))

\* cells around which the draws are sampled: the snake's start and two
\* corners of the range
SpawnAnchors ==
    { <<SnakeStartX, SnakeStartY>>,
      <<0, AppleYStart>>, <<AppleXEnd - 1, AppleYEnd - 1>> }

Sample(cells) ==
    { p \in cells :
        \E a \in SpawnAnchors :
            Abs(p[1] - a[1]) + Abs(p[2] - a[2]) <= SpawnReach }

\* gen_range(0..14) for y: the draw can land on the header row
Apple_default_header_row ==
    { [position |-> p, unit |-> "apple"] :
        p \in Sample((0 .. (AppleXEnd - 1)) \X (0 .. (AppleYEnd - 1))) }

Apple_default == { [position |-> p, unit |-> "apple"] : p \in Sample(AppleCells) }

App_default ==
    { [score |-> 0, exit |-> FALSE, direction |-> <<1, 0>>,
       snake |-> Snake_default, apple |-> ap] : ap \in Apple_default }

(***************************************************************************)
(* Input.                                                                  *)
(***************************************************************************)
\* key codes: the five the match names, and one it does not
KeyCodes == {"q", "Left", "Right", "Down", "Up", "x"}

\* events other than a key press: key release and repeat, resize
OtherEvents ==
    { [kind |-> "Release", code |-> "q"], [kind |-> "Repeat", code |-> "Up"],
      [kind |-> "Resize", code |-> "none"] }

NoEvent == [kind |-> "None", code |-> "none"]

(***************************************************************************)
(* App::handle_key_event, statement by statement.  A step yields a result  *)
(* [app, panicked]; a panic stops the handler with the App as mutated so   *)
(* far.  eat_apple and the handler yield the set of their outcomes, one    *)
(* for each draw of the spawner.                                           *)
(***************************************************************************)
\* fn exit
exit(a) == [a EXCEPT !.exit = TRUE]

\* the match with a guard against reversing into the snake's own neck
match_code_no_reversal(a, code) ==
    LET d == CASE code = "Left"  -> <<-1, 0>>
               [] code = "Right" -> <<1, 0>>
               [] code = "Down"  -> <<0, 1>>
               [] code = "Up"    -> <<0, -1>>
               [] OTHER          -> a.direction
    IN  IF code = "q"
        THEN [a EXCEPT !.exit = TRUE]
        ELSE IF d[1] + a.direction[1] = 0 /\ d[2] + a.direction[2] = 0
             THEN a
             ELSE [a EXCEPT !.direction = d]

\* the match on key_event.code
match_code(a, code) ==
    CASE code = "q"     -> exit(a)
      [] code = "Left"  -> [a EXCEPT !.direction = <<-1, 0>>]
      [] code = "Right" -> [a EXCEPT !.direction = <<1, 0>>]
      [] code = "Down"  -> [a EXCEPT !.direction = <<0, 1>>]
      [] code = "Up"    -> [a EXCEPT !.direction = <<0, -1>>]
      [] OTHER          -> a

\* body.insert(0, body[0].clone()); body[0] = (x as i16 + dx) as u16, ...
move_head(a, checks) ==
    IF Len(a.snake.body) = 0
    THEN [app |-> a, panicked |-> TRUE]
    ELSE LET head     == a.snake.body[1]
             inserted == <<head>> \o a.snake.body
             nx       == AddI16(AsI16(head[1]), a.direction[1])
             ny       == AddI16(AsI16(head[2]), a.direction[2])
             new_head == <<AsU16(nx.wrapped), AsU16(ny.wrapped)>>
         IN  IF checks /\ (nx.overflow \/ ny.overflow)
             THEN [app |-> [a EXCEPT !.snake.body = inserted],
                   panicked |-> TRUE]
             ELSE [app |-> [a EXCEPT !.snake.body = <<new_head>> \o a.snake.body],
                   panicked |-> FALSE]

\* eat_apple with `self.apple = Apple::default()` after the if: the food is
\* redrawn on every tick
eat_apple_always_respawn(a, checks) ==
    IF a.snake.body[1] = a.apple.position
    THEN IF checks /\ a.score + 1 >= U8Modulus
         THEN { [app |-> a, panicked |-> TRUE] }
         ELSE LET a1 == [a EXCEPT !.score = (a.score + 1) % U8Modulus]
              IN  IF checks /\ a.snake.length + 1 >= U16Modulus
                  THEN { [app |-> a1, panicked |-> TRUE] }
                  ELSE { [app |-> [a1 EXCEPT
                                     !.snake.length = (a.snake.length + 1) % U16Modulus,
                                     !.apple = spawned],
                          panicked |-> FALSE] : spawned \in Apple_default }
    ELSE { [app |-> [a EXCEPT !.apple = spawned], panicked |-> FALSE] :
              spawned \in Apple_default }

\* fn eat_apple: the set of outcomes, one for each value Apple::default()
\* can return when it is called
eat_apple(a, checks) ==
    IF a.snake.body[1] = a.apple.position
    THEN IF checks /\ a.score + 1 >= U8Modulus
         THEN { [app |-> a, panicked |-> TRUE] }
         ELSE LET a1 == [a EXCEPT !.score = (a.score + 1) % U8Modulus]
              IN  IF checks /\ a.snake.length + 1 >= U16Modulus
                  THEN { [app |-> a1, panicked |-> TRUE] }
                  ELSE { [app |-> [a1 EXCEPT
                                     !.snake.length = (a.snake.length + 1) % U16Modulus,
                                     !.apple = spawned],
                          panicked |-> FALSE] : spawned \in Apple_default }
    ELSE { [app |-> a, panicked |-> FALSE] }

\* while body.len() >= length { body.pop(); }: one cell too many is popped
trim_one_more(a) ==
    [a EXCEPT !.snake.body =
        SubSeq(a.snake.body, 1,
               Min(Len(a.snake.body),
                   IF a.snake.length > 0 THEN a.snake.length - 1 ELSE 0))]

\* while body.len() > length { body.pop(); }
trim(a) ==
    [a EXCEPT !.snake.body =
        SubSeq(a.snake.body, 1, Min(Len(a.snake.body), a.snake.length))]

\* the set of outcomes of handling a press of code
handle_key_event(a, code, checks) ==
    LET matched == match_code(a, code)
        moved   == move_head(matched, checks)
    IN  IF moved.panicked
        THEN { moved }
        ELSE { IF eaten.panicked
               THEN eaten
               ELSE [app |-> trim(eaten.app), panicked |-> FALSE] :
                   eaten \in eat_apple(moved.app, checks) }

(***************************************************************************)
(* States of a game in progress.  Each is reached from App::default by the *)
(* key presses named in its comment; they stand for the long prefixes of   *)
(* play that lead to the edges of the integer types.                       *)
(***************************************************************************)
\* a snake of n cells stretched along row y, head at column x, moving right
Line(x, y, n) == [i \in 1 .. n |-> <<AsU16(x - (i - 1)), y>>]

InPlay(body, dir, score, food) ==
    [score |-> score, exit |-> FALSE, direction |-> dir,
     snake |-> [body |-> body, head |-> "X", length |-> Len(body)],
     apple |-> [position |-> food, unit |-> "apple"]]

\* reached under either build profile, with no apple eaten:
\*   head (5,5) moving right, apple drawn at (6,5): Up three times, Left
\*     80, Down, Right;
\*   head (0,0) moving left, apple drawn at (0,1): Up seven times, Left 84;
\*   head (32767,7) moving right, apple drawn at (166,13): Right 32683.
\* reached under either build profile after 255 apples:
\*   256 cells along row 0, which holds no apple, head (100,0), apple drawn
\*   at (100,1).
EarlyGame ==
    { InPlay(<< <<5, 5>> >>, <<1, 0>>, 0, <<6, 5>>),
      InPlay(<< <<0, 0>> >>, <<-1, 0>>, 0, <<0, 1>>),
      InPlay(<< <<I16Max, SnakeStartY>> >>, <<1, 0>>, 0,
             <<AppleXEnd - 1, AppleYEnd - 1>>),
      InPlay(Line(100, 0, U8Modulus), <<1, 0>>, U8Modulus - 1, <<100, 1>>) }

\* reached only with overflow checks off, after 65535 apples (the score has
\* wrapped 255 times): 65535 cells along row 0, head (100,0), apple drawn at
\* (100,1)
LateGame ==
    { InPlay(Line(100, 0, U16Modulus - 1), <<1, 0>>,
             (U16Modulus - 1) % U8Modulus, <<100, 1>>) }

(***************************************************************************)
(* App::run and App::handle_events.                                        *)
(***************************************************************************)
Init ==
    /\ overflow_checks \in BOOLEAN
    /\ app \in App_default \cup EarlyGame
                \cup (IF overflow_checks THEN {} ELSE LateGame)
    /\ pc = "loop"
    /\ event = NoEvent
    /\ ticks = 0

\* while !self.exit { terminal.draw(..)?; ... }: the draw reads the state
Draw ==
    /\ pc = "loop"
    /\ ~app.exit
    /\ pc' = "events"
    /\ UNCHANGED <<app, event, overflow_checks, ticks>>

\* terminal.draw(..)? returns the error
DrawFails ==
    /\ pc = "loop"
    /\ ~app.exit
    /\ pc' = "io_error"
    /\ UNCHANGED <<app, event, overflow_checks, ticks>>

\* the loop condition is false: Ok(())
Return ==
    /\ pc = "loop"
    /\ app.exit
    /\ pc' = "done"
    /\ UNCHANGED <<app, event, overflow_checks, ticks>>

\* event::read()? returns the error
ReadFails ==
    /\ pc = "events"
    /\ pc' = "io_error"
    /\ UNCHANGED <<app, event, overflow_checks, ticks>>

\* Event::Key(key_event) if key_event.kind == KeyEventKind::Press
HandleKeyPress ==
    /\ pc = "events"
    /\ ticks < MaxTicks
    /\ \E code \in KeyCodes :
         \E r \in handle_key_event(app, code, overflow_checks) :
             /\ app' = r.app
             /\ pc' = IF r.panicked THEN "panicked" ELSE "loop"
             /\ event' = [kind |-> "Press", code |-> code]
    /\ ticks' = ticks + 1
    /\ UNCHANGED overflow_checks

\* the match without `if key_event.kind == KeyEventKind::Press`: key
\* release and repeat events are handled as presses
HandleOtherEvent_any_key_kind ==
    /\ pc = "events"
    /\ \E e \in OtherEvents :
         /\ event' = e
         /\ IF e.kind \in {"Release", "Repeat"}
            THEN /\ ticks < MaxTicks
                 /\ ticks' = ticks + 1
                 /\ \E r \in handle_key_event(app, e.code, overflow_checks) :
                      /\ app' = r.app
                      /\ pc' = IF r.panicked THEN "panicked" ELSE "loop"
            ELSE /\ pc' = "loop"
                 /\ UNCHANGED <<app, ticks>>
    /\ UNCHANGED overflow_checks

\* the `_` arm reading the next event itself instead of returning to run
HandleOtherEvent_reads_on ==
    /\ pc = "events"
    /\ \E e \in OtherEvents : event' = e
    /\ event' # event
    /\ pc' = "events"
    /\ UNCHANGED <<app, overflow_checks, ticks>>

\* _ => {}
HandleOtherEvent ==
    /\ pc = "events"
    /\ \E e \in OtherEvents : event' = e
    /\ pc' = "loop"
    /\ UNCHANGED <<app, overflow_checks, ticks>>

handle_events == HandleKeyPress \/ HandleOtherEvent \/ ReadFails

Next == Draw \/ DrawFails \/ Return \/ HandleKeyPress \/ HandleOtherEvent \/ ReadFails

Spec == Init /\ [][Next]_vars

\* main: App::default().run(..), the game from its construction
InitStart ==
    /\ overflow_checks \in BOOLEAN
    /\ app \in App_default
    /\ pc = "loop"
    /\ event = NoEvent
    /\ ticks = 0

SpecStart == InitStart /\ [][Next]_vars

TypeOK ==
    /\ app.score \in 0 .. (U8Modulus - 1)
    /\ app.snake.length \in 0 .. (U16Modulus - 1)
    /\ pc \in {"loop", "events", "done", "io_error", "panicked"}

(***************************************************************************)
(* Vocabulary of the properties.                                           *)
(***************************************************************************)
\* the play field of the specification: 168 columns (Scenario B), and the
\* rows the spawner's range ends at
width == 168
height == AppleYEnd

InBounds(cell) == cell[1] \in 0 .. (width - 1) /\ cell[2] \in 0 .. (height - 1)

\* this step is handle_key_event for a press of code
Pressed(code) ==
    /\ pc = "events"
    /\ ticks' = ticks + 1
    /\ event' = [kind |-> "Press", code |-> code]

Directions == {"Left", "Right", "Down", "Up"}

\* the cell the head occupies after the move of a tick, before the
\* consumption check
NewHead(a, code) == move_head(match_code(a, code), FALSE).app.snake.body[1]

\* this step is a completed tick whose post-move head is on the food
Consumed ==
    /\ Len(app.snake.body) > 0
    /\ \E code \in KeyCodes : Pressed(code) /\ NewHead(app, code) = app.apple.position
    /\ pc' = "loop"

(***************************************************************************)
(* C1: while Running, a key press that is neither an arrow nor the quit    *)
(* key leaves every field of the App unchanged and performs no tick.       *)
(***************************************************************************)
C1_IgnoredKeyNoOp ==
    [][(Pressed("x") /\ ~app.exit) => app' = app]_vars

(***************************************************************************)
(* C2: while Running, Quit sets the termination flag and leaves the snake  *)
(* (body and target length), the food and the score as they were.          *)
(***************************************************************************)
C2_QuitNoPositionUpdate ==
    [][(Pressed("q") /\ ~app.exit) =>
          /\ app'.exit
          /\ app'.snake = app.snake
          /\ app'.apple = app.apple
          /\ app'.score = app.score]_vars

(***************************************************************************)
(* C3: Terminated is absorbing: once the termination flag is set, applying *)
(* any signal leaves the App identical, and no tick is performed.          *)
(***************************************************************************)
C3_TerminatedAbsorbing ==
    app.exit =>
        \A code \in KeyCodes :
            handle_key_event(app, code, overflow_checks)
                = { [app |-> app, panicked |-> FALSE] }

(***************************************************************************)
(* C4: after each tick completes, the number of cells of the body equals   *)
(* the target length.                                                      *)
(***************************************************************************)
C4_GrowthInvariant ==
    pc # "panicked" => Len(app.snake.body) = app.snake.length

\* a tick has consumed the first apple and the snake has grown to two cells
C4_Witness ==
    /\ ticks > 0
    /\ pc = "loop"
    /\ app.score = 1
    /\ app.snake.length = 2
    /\ Len(app.snake.body) = 2

(***************************************************************************)
(* C5: in every tick the score increases by exactly 1 if the post-move     *)
(* head is on the food held before the tick, and is unchanged otherwise;   *)
(* it never decreases, whatever the value of the 8-bit counter.            *)
(***************************************************************************)
C5_ScoreMonotone ==
    [][\A code \in KeyCodes :
          (Pressed(code) /\ Len(app.snake.body) > 0) =>
              app'.score = app.score
                  + (IF NewHead(app, code) = app.apple.position THEN 1 ELSE 0)]_vars

(***************************************************************************)
(* C6: every Direction signal applied while Running performs one tick, and *)
(* the new head is the previous head plus the updated heading, wrapped     *)
(* into the play field: from (0,0) heading Left the head becomes (167,0).  *)
(***************************************************************************)
C6_HeadWrapsInField ==
    [][\A code \in Directions :
          (Pressed(code) /\ ~app.exit /\ Len(app.snake.body) > 0) =>
              /\ pc' = "loop"
              /\ Len(app'.snake.body) > 0
              /\ app'.snake.body[1] =
                    << (app.snake.body[1][1] + app'.direction[1] + width) % width,
                       (app.snake.body[1][2] + app'.direction[2] + height) % height >>]_vars

(***************************************************************************)
(* C7: no key press moves a snake that lies inside the play field          *)
(* [0,width) x [0,height) to a cell outside it.                            *)
(***************************************************************************)
C7_BodyInBounds ==
    [][(\A i \in 1 .. Len(app.snake.body) : InBounds(app.snake.body[i])) =>
          (\A i \in 1 .. Len(app'.snake.body) : InBounds(app'.snake.body[i]))]_vars

(***************************************************************************)
(* C8: handling a key always completes with a successor state: no          *)
(* arithmetic-overflow panic and no out-of-range index.                    *)
(***************************************************************************)
C8_NoPanic == pc # "panicked"

(***************************************************************************)
(* C9: after a tick that consumes the food, the new food position differs  *)
(* from the position just consumed.                                        *)
(***************************************************************************)
C9_FoodMovesAway ==
    [][Consumed => app'.apple.position # app.apple.position]_vars

\* C9 as amended: after a completed tick that consumes the food, the food
\* is a fresh draw from the spawner's rectangle [0,167) x [1,14), which may
\* be the position just consumed.
C9_FoodRedrawnInRange ==
    [][Consumed =>
          /\ app'.apple.position[1] \in 0 .. (AppleXEnd - 1)
          /\ app'.apple.position[2] \in AppleYStart .. (AppleYEnd - 1)
          /\ app'.apple.unit = app.apple.unit]_vars

\* the first apple was consumed by the last tick and the new one was drawn
\* on the cell just consumed, under the head
C9_Witness ==
    /\ ticks = 1
    /\ pc = "loop"
    /\ app.score = 1
    /\ app.apple.position = app.snake.body[1]

(***************************************************************************)
(* C10: once a quit key press has been handled the loop draws nothing and  *)
(* reads nothing more before it returns, and the loop ends only by quit    *)
(* or by an I/O error.                                                     *)
(***************************************************************************)
C10_QuitEndsLoop ==
    [][/\ app.exit => (pc' \in {"loop", "done"} /\ event' = event /\ app' = app)
       /\ (pc' \in {"done", "panicked"}) => app'.exit]_vars

(***************************************************************************)
(* C11: the App as constructed has a randomly chosen snake position (any   *)
(* cell of the play field can be the initial head), a randomly chosen      *)
(* food position, a rightward heading, score 0, the termination flag       *)
(* false, and a body of exactly one cell with target length 1.             *)
(***************************************************************************)
\* no key press has been handled yet
Constructed == ticks = 0

FoodInSpawnRange(a) ==
    /\ a.apple.position[1] \in 0 .. (AppleXEnd - 1)
    /\ a.apple.position[2] \in AppleYStart .. (AppleYEnd - 1)

C11_RandomStart ==
    Constructed =>
        /\ \A cell \in (0 .. (width - 1)) \X (0 .. (height - 1)) :
              \E a \in App_default : a.snake.body = <<cell>>
        /\ Len(app.snake.body) = 1
        /\ app.snake.length = 1
        /\ FoodInSpawnRange(app)
        /\ app.direction = <<1, 0>>
        /\ app.score = 0
        /\ ~app.exit

\* C11 as amended: the App as constructed has the fixed snake position
\* (84,7), a randomly chosen food position in [0,167) x [1,14), a rightward
\* heading, score 0, the termination flag false, and a body of exactly one
\* cell with target length 1.
C11_FixedStart ==
    Constructed =>
        /\ app.snake.body = << <<84, 7>> >>
        /\ app.snake.length = 1
        /\ FoodInSpawnRange(app)
        /\ app.direction = <<1, 0>>
        /\ app.score = 0
        /\ ~app.exit

\* the App right after construction, with the food drawn in the far corner
C11_Witness ==
    /\ Constructed
    /\ pc = "loop"
    /\ event = NoEvent
    /\ app.apple.position = <<166, 13>>

(***************************************************************************)
(* C12: a Direction(d) signal applied while Running sets the stored        *)
(* heading to d whatever the previous heading was (the opposite of d       *)
(* included), the movement of that same apply uses d, and the heading then *)
(* stays d until another Direction signal is applied.                      *)
(***************************************************************************)
Heading(code) ==
    CASE code = "Left"  -> <<-1, 0>>
      [] code = "Right" -> <<1, 0>>
      [] code = "Down"  -> <<0, 1>>
      [] code = "Up"    -> <<0, -1>>

\* the step is not the handling of an arrow key press
NoDirectionSignal == \A code \in Directions : ~Pressed(code)

C12_HeadingOverwritten ==
    [][/\ \A code \in Directions :
            (Pressed(code) /\ ~app.exit) =>
                /\ app'.direction = Heading(code)
                /\ (pc' = "loop" /\ Len(app'.snake.body) > 0) =>
                      app'.snake.body[1] =
                          << (app.snake.body[1][1] + Heading(code)[1]) % U16Modulus,
                             (app.snake.body[1][2] + Heading(code)[2]) % U16Modulus >>
       /\ NoDirectionSignal => app'.direction = app.direction]_vars

\* the snake as constructed was heading right; Left was pressed, the
\* heading is now left and the head moved from (84,7) to (83,7)
C12_Witness ==
    /\ ticks = 1
    /\ pc = "loop"
    /\ event = [kind |-> "Press", code |-> "Left"]
    /\ app.direction = <<-1, 0>>
    /\ app.snake.body = << <<83, 7>> >>

(***************************************************************************)
(* C13: every tick preserves the order of the body: the body after the     *)
(* tick is the new head followed by the cells of the body before the tick  *)
(* in their order; a tick without consumption drops exactly the old last   *)
(* cell, a tick with consumption drops no cell.                            *)
(***************************************************************************)
C13_BodyOrderPreserved ==
    [][\A code \in KeyCodes :
          (Pressed(code) /\ pc' = "loop" /\ Len(app.snake.body) > 0) =>
              LET new_head == NewHead(app, code)
                  old      == app.snake.body
              IN  IF new_head = app.apple.position
                  THEN app'.snake.body = <<new_head>> \o old
                  ELSE app'.snake.body =
                          <<new_head>> \o SubSeq(old, 1, Len(old) - 1)]_vars

(***************************************************************************)
(* C14: consecutive cells of the body differ by exactly one unit step      *)
(* along exactly one axis, a step across an edge of the play field         *)
(* counting as a unit step of the torus; every completed tick keeps it so. *)
(***************************************************************************)
UnitStep(p, q) ==
    LET dx == (p[1] - q[1]) % width
        dy == (p[2] - q[2]) % height
    IN  \/ dx \in {1, width - 1} /\ dy = 0
        \/ dx = 0 /\ dy \in {1, height - 1}

Contiguous(body) ==
    \A i \in 1 .. (Len(body) - 1) : UnitStep(body[i], body[i + 1])

C14_BodyContiguous ==
    [][(Contiguous(app.snake.body) /\ pc' # "panicked") =>
          Contiguous(app'.snake.body)]_vars

(***************************************************************************)
(* C15: the food is replaced only on consumption: a tick whose post-move   *)
(* head is not on the food leaves the food's position and glyph as they    *)
(* were and draws nothing from the spawner; no other step changes the      *)
(* food.                                                                   *)
(***************************************************************************)
C15_FoodOnlyReplacedWhenEaten ==
    [][/\ app'.apple # app.apple => Consumed
       /\ \A code \in KeyCodes :
            (Pressed(code) /\ Len(app.snake.body) > 0
                /\ NewHead(app, code) # app.apple.position) =>
                Cardinality(handle_key_event(app, code, overflow_checks)) = 1]_vars

\* the first tick of the game moved the head off (84,7) without reaching
\* the food, which lies where it was drawn, in the far corner
C15_Witness ==
    /\ ticks = 1
    /\ pc = "loop"
    /\ app.score = 0
    /\ app.snake.body = << <<85, 7>> >>
    /\ app.apple.position = <<166, 13>>

DrawStep == pc = "loop" /\ pc' \in {"events", "io_error"}

C17_OneDrawPerTick ==
    [][/\ DrawStep => event.kind \in {"None", "Press"}
       /\ (pc = "loop" /\ event.kind = "Press" /\ ~app.exit) => DrawStep]_vars

\* C17 as amended: the loop strictly alternates one draw with one call of
\* handle_events, which reads one event: every tick handles a key press
\* read right after a draw of the state it acts on, the draw changes
\* nothing, an event that is not a key press is followed by a redraw
\* without a tick, and the state produced by the quit press is not drawn.
C17_OneDrawPerEvent ==
    [][/\ pc = "events" => pc' \in {"loop", "io_error", "panicked"}
       /\ ticks' # ticks => (pc = "events" /\ event'.kind = "Press")
       /\ DrawStep => (~app.exit /\ app' = app /\ event' = event /\ ticks' = ticks)
       /\ (pc = "loop" /\ app.exit) => pc' = "done"]_vars

\* after a tick the window was resized, and the unchanged state has been
\* drawn a second time
C17_Witness ==
    /\ ticks = 1
    /\ event.kind = "Resize"
    /\ pc = "events"

(***************************************************************************)
(* C18: the score and the target length stay in lock-step,                 *)
(* snake.length = score + 1: no step breaks it, for any number of          *)
(* consumptions.                                                           *)
(***************************************************************************)
LockStep(a) == a.snake.length = a.score + 1

C18_ScoreLengthLockStep ==
    [][LockStep(app) => LockStep(app')]_vars

(***************************************************************************)
(* C19: in every state the body is non-empty and the target length is at   *)
(* least 1, so that body[0] is defined at the start of every tick and in   *)
(* eat_apple.                                                              *)
(***************************************************************************)
C19_BodyNonEmpty ==
    /\ Len(app.snake.body) >= 1
    /\ app.snake.length >= 1

(***************************************************************************)
(* C20: an input event that is not a key press (a key release or repeat,   *)
(* a resize) leaves the whole App unchanged and performs no tick; only a   *)
(* key press reaches handle_key_event.                                     *)
(***************************************************************************)
C20_OnlyPressesAreHandled ==
    [][/\ (pc = "events" /\ event'.kind # "Press") =>
              (app' = app /\ ticks' = ticks)
       /\ (app' # app \/ ticks' # ticks) =>
              (pc = "events" /\ event'.kind = "Press")]_vars

\* a tick moved the snake up from (84,7), then a key repeat of Up was read:
\* the snake is where the tick left it
C20_Witness ==
    /\ pc = "loop"
    /\ event = [kind |-> "Repeat", code |-> "Up"]
    /\ ticks = 1
    /\ app.snake.body = << <<84, 6>> >>

====
